---- MODULE Spec2Model ----
(***************************************************************************)
(* Channel<T> of stratum/lib/channel/channel.h: a bounded FIFO queue       *)
(* guarded by one absl::Mutex (queue_lock_) and two absl::CondVar          *)
(* (cond_not_empty_, cond_not_full_), used by several threads.             *)
(*                                                                         *)
(* Every method of Channel starts with absl::MutexLock l(&queue_lock_).    *)
(* A thread outside a call (pc = "idle") enters a method by taking the     *)
(* mutex (pc = "held"); the body of the method then runs to its return     *)
(* (pc = "idle", the result is in ret) or to a CondVar::WaitWithTimeout,   *)
(* which gives the mutex up (pc = "wait").  A woken thread (pc = "woken")  *)
(* takes the mutex again (pc = "reheld") and goes on after the wait.       *)
(***************************************************************************)
EXTENDS Integers, Sequences, FiniteSets, TLC

\* ------------------------------------------------------------------ bounds
NumThreads == 3
MaxDepth == 2
MaxVal == 3
MaxTimeout == 2
TimedThreads == 2
FairMaxDepth == 1
HandleThreads == 2
MaxHandles == 2
PhalThreads == 2
MaxInstances == 2
NumInterfaces == 2

Threads == 1..NumThreads
NoThread == 0

\* absl::InfiniteDuration(): Write()/Read() block indefinitely.
InfiniteDuration == -1
\* The tick counter of a call saturates one above the largest finite timeout.
MaxWaited == MaxTimeout + 1

VARIABLES
  queue_,           \* std::deque<T> queue_
  closed_,          \* bool closed_
  max_depth_,       \* const size_t max_depth_
  queue_lock_,      \* the thread that holds absl::Mutex queue_lock_, or NoThread
  cond_not_empty_,  \* the threads blocked in cond_not_empty_.WaitWithTimeout
  cond_not_full_,   \* the threads blocked in cond_not_full_.WaitWithTimeout
  pc,               \* where each thread is
  op,               \* the method a thread is blocked in ("none" otherwise)
  val,              \* the value t of a blocked Write (0: none)
  timeout,          \* the timeout of a blocked Write/Read
  expired,          \* what the thread's last WaitWithTimeout returned
  elapsed,          \* ticks the thread has spent in its current wait
  waited,           \* ticks the thread has spent waiting in its current call
  ret,              \* the most recent return: method, status, values handed out
  next_val,         \* the next fresh value a writer passes
  written,          \* the values of the successful Write/TryWrite, in order
  delivered,        \* the values handed out by Read/TryRead/ReadAll, in order
  close_count,      \* how many Close() calls have returned true (saturates at 2)
  timed,            \* whether time is measured in ticks (else a timed wait
                    \* may run into its timeout at any moment)
  channel,          \* whether the creator's std::shared_ptr<Channel<T>> channel
                    \* still holds the channel (FALSE after channel.reset())
  readers,          \* the number of ChannelReader<T> objects that exist
  writers,          \* the number of ChannelWriter<T> objects that exist
  use_count,        \* the shares of ownership of the channel (shared_ptr)
  alive,            \* whether the Channel<T> object has not been destroyed
  drain,            \* the writers a ReadAll has woken, once only they go on
  singleton_,       \* GbPhal* GbPhal::singleton_ (nullptr or an address)
  init_lock_,       \* the thread that holds GbPhal::init_lock_, or NoThread
  instances,        \* the addresses at which a GbPhal object exists
  initialized_,     \* bool initialized_ of the object at each address
  gb_interface_,    \* GbInterface* gb_interface_ of the object at each address
  gb_pc,            \* where each thread is in CreateSingleton
  gb_interface,     \* the argument of the thread's CreateSingleton call
  status,           \* what Initialize returned to the thread
  received,         \* the pointers CreateSingleton has returned to callers
  returned,         \* the objects that exist and whose pointer a caller has
  gb_ret            \* the most recent return of CreateSingleton/Shutdown

chan == <<queue_, closed_, max_depth_>>
conds == <<cond_not_empty_, cond_not_full_>>
locals == <<op, val, timeout, expired, elapsed, waited>>
logs == <<written, delivered>>
handles == <<channel, readers, writers, use_count, alive>>
phal == <<singleton_, init_lock_, instances, initialized_, gb_interface_,
          gb_pc, gb_interface, status, received, returned, gb_ret>>
vars == <<queue_, closed_, max_depth_, queue_lock_, cond_not_empty_,
          cond_not_full_, pc, op, val, timeout, expired, elapsed, waited, ret,
          next_val, written, delivered, close_count, timed,
          channel, readers, writers, use_count, alive, drain,
          singleton_, init_lock_, instances, initialized_, gb_interface_,
          gb_pc, gb_interface, status, received, returned, gb_ret>>

NoRet == [op |-> "none", status |-> "none", vals |-> <<>>]

\* The addresses a GbPhal object can be at, the gearbox interfaces a caller
\* can pass, and the null pointer.
Addresses == 1..MaxInstances
Interfaces == 1..NumInterfaces
nullptr == 0
NoGbRet == [op |-> "none", value |-> nullptr]

\* GbPhal* GbPhal::singleton_ = nullptr; no thread is in a call.
InitPhal ==
  /\ singleton_ = nullptr
  /\ init_lock_ = NoThread
  /\ instances = {}
  /\ initialized_ = [a \in Addresses |-> FALSE]
  /\ gb_interface_ = [a \in Addresses |-> nullptr]
  /\ gb_pc = [t \in 1..PhalThreads |-> "idle"]
  /\ gb_interface = [t \in 1..PhalThreads |-> nullptr]
  /\ status = [t \in 1..PhalThreads |-> "none"]
  /\ received = {}
  /\ returned = {}
  /\ gb_ret = NoGbRet

\* Channel(size_t max_depth) : closed_(false), max_depth_(max_depth) {}
InitChannel ==
  /\ queue_ = <<>>
  /\ closed_ = FALSE
  /\ max_depth_ \in 0..MaxDepth
  /\ queue_lock_ = NoThread
  /\ cond_not_empty_ = {}
  /\ cond_not_full_ = {}
  /\ pc = [t \in Threads |-> "idle"]
  /\ op = [t \in Threads |-> "none"]
  /\ val = [t \in Threads |-> 0]
  /\ timeout = [t \in Threads |-> 0]
  /\ expired = [t \in Threads |-> FALSE]
  /\ elapsed = [t \in Threads |-> 0]
  /\ waited = [t \in Threads |-> 0]
  /\ ret = NoRet
  /\ next_val = 1
  /\ written = <<>>
  /\ delivered = <<>>
  /\ close_count = 0

\* auto reader = ChannelReader<T>::Create(channel);
\* auto writer = ChannelWriter<T>::Create(channel);
\* the channel is shared by its creator, one reader and one writer.
InitHandles ==
  /\ channel = TRUE
  /\ readers = 1
  /\ writers = 1
  /\ use_count = 3
  /\ alive = TRUE

Init == InitChannel /\ InitHandles /\ timed = FALSE /\ drain = {} /\ InitPhal

\* The timeouts a caller passes: immediate (told from a finite one only
\* when time is measured), finite, unbounded.
Timeouts == IF timed THEN {0, MaxTimeout, InfiniteDuration}
                     ELSE {MaxTimeout, InfiniteDuration}

\* ---------------------------------------------------------------- helpers

\* QueueFull with the bound off by one.
QueueFull_OffByOne == Len(queue_) = max_depth_ + 1

\* QueueFull that takes the capacity 0 for "no bound".
QueueFull_Positive == Len(queue_) = max_depth_ /\ max_depth_ > 0

\* queue_.size() == max_depth_
QueueFull == Len(queue_) = max_depth_

\* queue_.size() > max_depth_
QueueOverrun == Len(queue_) > max_depth_

\* queue_.empty()
QueueEmpty == Len(queue_) = 0

\* PushBack as a push_front.
PushBack_Front(q, v) == <<v>> \o q

\* PushBack that appends the value twice.
PushBack_Twice(q, v) == Append(Append(q, v), v)

\* queue_.push_back(t)
PushBack(q, v) == Append(q, v)

\* Front that takes the item at the tail.
Front_Last(q) == q[Len(q)]

\* queue_.front()
Front(q) == Head(q)

\* PopFront that leaves the front item in place.
PopFront_Keep(q) == q

\* PopFront that takes two items off when there are two.
PopFront_Two(q) == IF Len(q) >= 2 THEN Tail(Tail(q)) ELSE Tail(q)

\* queue_.pop_front()
PopFront(q) == Tail(q)

\* SignalSets that wakes nobody.
SignalSets_None(cv) == {{}}

\* SignalSets as a SignalAll(): every waiting thread is woken.
SignalSets_All(cv) == {cv}

\* CondVar::Signal(): wakes one waiting thread, if there is one.
SignalSets(cv) == IF cv = {} THEN {{}} ELSE {{u} : u \in cv}

\* SignalAllSets as a Signal(): one waiting thread is woken.
SignalAllSets_One(cv) == IF cv = {} THEN {{}} ELSE {{u} : u \in cv}

\* CondVar::SignalAll(): wakes every waiting thread.
SignalAllSets(cv) == {cv}

\* The timeout of the thread's current wait has run out.
DeadlineReached(u) ==
  /\ timeout[u] # InfiniteDuration
  /\ timed => elapsed[u] >= timeout[u]

\* What WaitWithTimeout may return to a thread woken by a signal: false,
\* or either value when its timeout has expired as well.
WakeExpired(u) == IF DeadlineReached(u) THEN BOOLEAN ELSE {FALSE}

\* What the waits of the woken threads W return (FALSE outside W).
WakeFns(W) ==
  {ef \in [Threads -> BOOLEAN] :
     \A u \in Threads : IF u \in W THEN ef[u] \in WakeExpired(u) ELSE ef[u] = FALSE}

\* Thread t returns status st (and the values vs) from method o and lets go
\* of the mutex, having woken the threads of W, whose waits return ef.
Return(t, o, st, vs, W, ef) ==
  /\ pc[t] \in {"held", "reheld"}
  /\ queue_lock_ = t
  /\ queue_lock_' = NoThread
  /\ pc' = [u \in Threads |->
              IF u = t THEN "idle" ELSE IF u \in W THEN "woken" ELSE pc[u]]
  /\ expired' = [u \in Threads |->
              IF u = t THEN FALSE ELSE IF u \in W THEN ef[u] ELSE expired[u]]
  /\ ret' = [op |-> o, status |-> st, vals |-> vs]
  /\ op' = [op EXCEPT ![t] = "none"]
  /\ val' = [val EXCEPT ![t] = 0]
  /\ timeout' = [timeout EXCEPT ![t] = 0]
  /\ elapsed' = [elapsed EXCEPT ![t] = 0]
  /\ waited' = [waited EXCEPT ![t] = 0]
  /\ UNCHANGED <<max_depth_, timed, drain, phal, handles>>

\* An error return that drops the front item of the queue.
ReturnError_DropsFront(t, o, st) ==
  /\ Return(t, o, st, <<>>, {}, expired)
  /\ queue_' = IF queue_ = <<>> THEN queue_ ELSE Tail(queue_)
  /\ UNCHANGED <<closed_, conds, logs, close_count>>

\* A return with an error status: nothing changes and nobody is woken.
ReturnError(t, o, st) ==
  /\ Return(t, o, st, <<>>, {}, expired)
  /\ UNCHANGED <<queue_, closed_, conds, logs, close_count>>

\* WaitWithTimeout that keeps the mutex while the thread waits.
WaitWithTimeout_KeepLock(t, o, v, d) ==
  /\ queue_lock_ = t
  /\ queue_lock_' = t
  /\ pc' = [pc EXCEPT ![t] = "wait"]
  /\ op' = [op EXCEPT ![t] = o]
  /\ val' = [val EXCEPT ![t] = v]
  /\ timeout' = [timeout EXCEPT ![t] = d]
  /\ elapsed' = [elapsed EXCEPT ![t] = 0]
  /\ expired' = [expired EXCEPT ![t] = FALSE]
  /\ IF o = "Write"
       THEN cond_not_full_' = cond_not_full_ \cup {t} /\ UNCHANGED cond_not_empty_
       ELSE cond_not_empty_' = cond_not_empty_ \cup {t} /\ UNCHANGED cond_not_full_
  /\ UNCHANGED <<chan, waited, ret, logs, close_count, timed, drain, phal, handles>>

\* cond.WaitWithTimeout(&queue_lock_, timeout) of method o, called with the
\* value v and the timeout d: the thread joins the waiters of the condition
\* and gives the mutex up; the wait starts with the full timeout of the call.
WaitWithTimeout(t, o, v, d) ==
  /\ queue_lock_ = t
  /\ queue_lock_' = NoThread
  /\ pc' = [pc EXCEPT ![t] = "wait"]
  /\ op' = [op EXCEPT ![t] = o]
  /\ val' = [val EXCEPT ![t] = v]
  /\ timeout' = [timeout EXCEPT ![t] = d]
  /\ elapsed' = [elapsed EXCEPT ![t] = 0]
  /\ expired' = [expired EXCEPT ![t] = FALSE]
  /\ IF o = "Write"
       THEN cond_not_full_' = cond_not_full_ \cup {t} /\ UNCHANGED cond_not_empty_
       ELSE cond_not_empty_' = cond_not_empty_ \cup {t} /\ UNCHANGED cond_not_full_
  /\ UNCHANGED <<chan, waited, ret, logs, close_count, timed, drain, phal, handles>>

\* ------------------------------------------------------------ the methods

\* absl::MutexLock l(&queue_lock_): the thread takes the free mutex, on
\* entering a method or on the way out of WaitWithTimeout.
Lock(t) ==
  /\ pc[t] \in {"idle", "woken"}
  /\ queue_lock_ = NoThread
  /\ queue_lock_' = t
  /\ pc' = [pc EXCEPT ![t] = IF pc[t] = "idle" THEN "held" ELSE "reheld"]
  /\ UNCHANGED <<chan, conds, locals, ret, next_val, logs, close_count, timed, drain, phal,
                 handles>>

\* Close() without the test of closed_: every call makes the transition.
Close_NoTest(t) ==
  /\ pc[t] = "held"
  /\ closed_' = TRUE
  /\ close_count' = IF close_count < 2 THEN close_count + 1 ELSE 2
  /\ cond_not_full_' = {}
  /\ cond_not_empty_' = {}
  /\ \E ef \in WakeFns(cond_not_full_ \cup cond_not_empty_) :
       Return(t, "Close", "true", <<>>, cond_not_full_ \cup cond_not_empty_, ef)
  /\ UNCHANGED <<queue_, logs, next_val>>

\* Close() that also throws the queued items away.
Close_ClearsQueue(t) ==
  /\ pc[t] = "held"
  /\ IF closed_
       THEN /\ Return(t, "Close", "false", <<>>, {}, expired)
            /\ UNCHANGED <<queue_, closed_, conds, logs, close_count, next_val>>
       ELSE /\ closed_' = TRUE
            /\ queue_' = <<>>
            /\ close_count' = IF close_count < 2 THEN close_count + 1 ELSE 2
            /\ \E Wf \in SignalAllSets(cond_not_full_),
                  We \in SignalAllSets(cond_not_empty_) :
                 /\ cond_not_full_' = cond_not_full_ \ Wf
                 /\ cond_not_empty_' = cond_not_empty_ \ We
                 /\ \E ef \in WakeFns(Wf \cup We) :
                      Return(t, "Close", "true", <<>>, Wf \cup We, ef)
            /\ UNCHANGED <<logs, next_val>>

\* bool Channel<T>::Close()
Close(t) ==
  /\ pc[t] = "held"
  /\ IF closed_
       THEN /\ Return(t, "Close", "false", <<>>, {}, expired)
            /\ UNCHANGED <<queue_, closed_, conds, logs, close_count, next_val>>
       ELSE /\ closed_' = TRUE
            /\ close_count' = IF close_count < 2 THEN close_count + 1 ELSE 2
            /\ \E Wf \in SignalAllSets(cond_not_full_),
                  We \in SignalAllSets(cond_not_empty_) :
                 /\ cond_not_full_' = cond_not_full_ \ Wf
                 /\ cond_not_empty_' = cond_not_empty_ \ We
                 /\ \E ef \in WakeFns(Wf \cup We) :
                      Return(t, "Close", "true", <<>>, Wf \cup We, ef)
            /\ UNCHANGED <<queue_, logs, next_val>>

\* IsClosed() that reports an open channel whatever closed_ is.
IsClosed_AlwaysFalse(t) ==
  /\ pc[t] = "held"
  /\ Return(t, "IsClosed", "false", <<>>, {}, expired)
  /\ UNCHANGED <<queue_, closed_, conds, logs, close_count, next_val>>

\* bool Channel<T>::IsClosed()
IsClosed(t) ==
  /\ pc[t] = "held"
  /\ Return(t, "IsClosed", IF closed_ THEN "true" ELSE "false", <<>>, {}, expired)
  /\ UNCHANGED <<queue_, closed_, conds, logs, close_count, next_val>>

\* CheckWriteState that tests for an overrun only, not for a full queue.
CheckWriteState_NoFullTest ==
  IF closed_ THEN "ERR_CANCELLED"
  ELSE IF QueueOverrun THEN "ERR_INTERNAL"
  ELSE "OK"

\* Channel<T>::CheckWriteState(): the status TryWrite goes on with.
CheckWriteState ==
  IF closed_ THEN "ERR_CANCELLED"
  ELSE IF QueueFull THEN "ERR_NO_RESOURCE"
  ELSE IF QueueOverrun THEN "ERR_INTERNAL"
  ELSE "OK"

\* CheckWriteStateAndBlock that gives up on an expired wait without looking
\* at the queue again.
CheckWriteStateAndBlock_ExpiredOnly(first, exp) ==
  IF closed_ THEN "ERR_CANCELLED"
  ELSE IF ~first /\ exp THEN "ERR_NO_RESOURCE"
  ELSE IF QueueFull THEN "wait"
  ELSE IF QueueOverrun THEN "ERR_INTERNAL"
  ELSE "OK"

\* Channel<T>::CheckWriteStateAndBlock(timeout), from its first line
\* (first) or from the return of WaitWithTimeout with the value exp:
\* a status, or "wait" for the next WaitWithTimeout.
CheckWriteStateAndBlock(first, exp) ==
  IF closed_ THEN "ERR_CANCELLED"
  ELSE IF ~first /\ exp /\ QueueFull THEN "ERR_NO_RESOURCE"
  ELSE IF QueueFull THEN "wait"
  ELSE IF QueueOverrun THEN "ERR_INTERNAL"
  ELSE "OK"

\* The head of Read() as its doc comment has it: a closed channel cancels
\* the read only when the queue is empty.
CheckReadStateAndBlock_Drain(first, exp) ==
  IF closed_ /\ QueueEmpty THEN "ERR_CANCELLED"
  ELSE IF ~first /\ exp /\ QueueEmpty THEN "ERR_ENTRY_NOT_FOUND"
  ELSE IF QueueEmpty THEN "wait"
  ELSE "OK"

\* The head of Read() that gives up on an expired wait without looking at
\* the queue again.
CheckReadStateAndBlock_ExpiredOnly(first, exp) ==
  IF closed_ THEN "ERR_CANCELLED"
  ELSE IF ~first /\ exp THEN "ERR_ENTRY_NOT_FOUND"
  ELSE IF QueueEmpty THEN "wait"
  ELSE "OK"

\* The head of Read() that tests closed_ at the top only, not after a wait.
CheckReadStateAndBlock_NoRecheck(first, exp) ==
  IF first /\ closed_ THEN "ERR_CANCELLED"
  ELSE IF ~first /\ exp /\ QueueEmpty THEN "ERR_ENTRY_NOT_FOUND"
  ELSE IF QueueEmpty THEN "wait"
  ELSE "OK"

\* The head of Read(): the closed checks and the wait loop, as above.
CheckReadStateAndBlock(first, exp) ==
  IF closed_ THEN "ERR_CANCELLED"
  ELSE IF ~first /\ exp /\ QueueEmpty THEN "ERR_ENTRY_NOT_FOUND"
  ELSE IF QueueEmpty THEN "wait"
  ELSE "OK"

\* Enqueue without the Signal() of cond_not_empty_.
Enqueue_NoSignal(t, o, v) ==
  /\ queue_' = PushBack(queue_, v)
  /\ written' = Append(written, v)
  /\ Return(t, o, "OK", <<>>, {}, expired)
  /\ UNCHANGED <<closed_, conds, delivered, close_count>>

\* queue_.push_back(t); cond_not_empty_.Signal(); return OkStatus();
Enqueue(t, o, v) ==
  /\ queue_' = PushBack(queue_, v)
  /\ written' = Append(written, v)
  /\ \E W \in SignalSets(cond_not_empty_) :
       /\ cond_not_empty_' = cond_not_empty_ \ W
       /\ \E ef \in WakeFns(W) : Return(t, o, "OK", <<>>, W, ef)
  /\ UNCHANGED <<closed_, cond_not_full_, delivered, close_count>>

\* *t = std::move(queue_.front()); queue_.pop_front();
\* cond_not_full_.Signal(); return OkStatus();
Dequeue(t, o) ==
  /\ queue_' = PopFront(queue_)
  /\ delivered' = Append(delivered, Front(queue_))
  /\ \E W \in SignalSets(cond_not_full_) :
       /\ cond_not_full_' = cond_not_full_ \ W
       /\ \E ef \in WakeFns(W) : Return(t, o, "OK", <<Front(queue_)>>, W, ef)
  /\ UNCHANGED <<closed_, cond_not_empty_, written, close_count>>

\* The body of Write(v, d) to its return or to its next wait.
WriteBody(t, first, v, d) ==
  LET st == CheckWriteStateAndBlock(first, expired[t]) IN
  IF st = "wait" THEN WaitWithTimeout(t, "Write", v, d)
  ELSE IF st = "OK" THEN Enqueue(t, "Write", v)
  ELSE ReturnError(t, "Write", st)

\* Status Channel<T>::Write(const T& t, Duration timeout), from the top.
Write(t) ==
  /\ pc[t] = "held"
  /\ next_val <= MaxVal
  /\ next_val' = next_val + 1
  /\ \E d \in Timeouts : WriteBody(t, TRUE, next_val, d)

\* Write() after cond_not_full_.WaitWithTimeout has returned.
WriteWake(t) ==
  /\ pc[t] = "reheld" /\ op[t] = "Write"
  /\ WriteBody(t, FALSE, val[t], timeout[t])
  /\ UNCHANGED next_val

\* Status Channel<T>::TryWrite(const T& t)
TryWrite(t) ==
  /\ pc[t] = "held"
  /\ next_val <= MaxVal
  /\ next_val' = next_val + 1
  /\ IF CheckWriteState = "OK"
       THEN Enqueue(t, "TryWrite", next_val)
       ELSE ReturnError(t, "TryWrite", CheckWriteState)

\* The body of Read(d) to its return or to its next wait.
ReadBody(t, first, d) ==
  LET st == CheckReadStateAndBlock(first, expired[t]) IN
  IF st = "wait" THEN WaitWithTimeout(t, "Read", 0, d)
  ELSE IF st = "OK" THEN Dequeue(t, "Read")
  ELSE ReturnError(t, "Read", st)

\* Status Channel<T>::Read(T* t, Duration timeout), from the top.
Read(t) ==
  /\ pc[t] = "held"
  /\ \E d \in Timeouts : ReadBody(t, TRUE, d)
  /\ UNCHANGED next_val

\* Read() after cond_not_empty_.WaitWithTimeout has returned.
ReadWake(t) ==
  /\ pc[t] = "reheld" /\ op[t] = "Read"
  /\ ReadBody(t, FALSE, timeout[t])
  /\ UNCHANGED next_val

\* Status Channel<T>::TryRead(T* t)
TryRead(t) ==
  /\ pc[t] = "held"
  /\ IF closed_ THEN ReturnError(t, "TryRead", "ERR_CANCELLED")
     ELSE IF QueueEmpty THEN ReturnError(t, "TryRead", "ERR_ENTRY_NOT_FOUND")
     ELSE Dequeue(t, "TryRead")
  /\ UNCHANGED next_val

\* ReadAll that hands the items out and leaves them in the queue.
ReadAll_NoClear(t) ==
  /\ pc[t] = "held"
  /\ IF closed_ THEN ReturnError(t, "ReadAll", "ERR_CANCELLED")
     ELSE /\ queue_' = queue_
          /\ delivered' = delivered \o queue_
          /\ \E W \in SignalAllSets(cond_not_full_) :
               /\ cond_not_full_' = cond_not_full_ \ W
               /\ \E ef \in WakeFns(W) : Return(t, "ReadAll", "OK", queue_, W, ef)
          /\ UNCHANGED <<closed_, cond_not_empty_, written, close_count>>
  /\ UNCHANGED next_val

\* ReadAll that wakes one waiting writer only.
ReadAll_SignalOne(t) ==
  /\ pc[t] = "held"
  /\ IF closed_ THEN ReturnError(t, "ReadAll", "ERR_CANCELLED")
     ELSE /\ queue_' = <<>>
          /\ delivered' = delivered \o queue_
          /\ \E W \in SignalSets(cond_not_full_) :
               /\ cond_not_full_' = cond_not_full_ \ W
               /\ \E ef \in WakeFns(W) : Return(t, "ReadAll", "OK", queue_, W, ef)
          /\ UNCHANGED <<closed_, cond_not_empty_, written, close_count>>
  /\ UNCHANGED next_val

\* Status Channel<T>::ReadAll(std::vector<T>* t_s)
ReadAll(t) ==
  /\ pc[t] = "held"
  /\ IF closed_ THEN ReturnError(t, "ReadAll", "ERR_CANCELLED")
     ELSE /\ queue_' = <<>>
          /\ delivered' = delivered \o queue_
          /\ \E W \in SignalAllSets(cond_not_full_) :
               /\ cond_not_full_' = cond_not_full_ \ W
               /\ \E ef \in WakeFns(W) : Return(t, "ReadAll", "OK", queue_, W, ef)
          /\ UNCHANGED <<closed_, cond_not_empty_, written, close_count>>
  /\ UNCHANGED next_val

\* ------------------------------------------------- time and the waiters

\* The threads in a WaitWithTimeout with a finite timeout.
TimedWaiters == {u \in Threads : pc[u] = "wait" /\ timeout[u] # InfiniteDuration}

\* One tick of time passes; no wait outlasts its own timeout.
Tick ==
  /\ timed
  /\ TimedWaiters # {}
  /\ \A u \in TimedWaiters : elapsed[u] < timeout[u]
  /\ elapsed' = [u \in Threads |->
                   IF u \in TimedWaiters THEN elapsed[u] + 1 ELSE elapsed[u]]
  /\ waited' = [u \in Threads |->
                   IF u \in TimedWaiters /\ waited[u] < MaxWaited
                     THEN waited[u] + 1 ELSE waited[u]]
  /\ UNCHANGED <<chan, queue_lock_, conds, pc, op, val, timeout, expired, ret,
                 next_val, logs, close_count, timed, drain, phal, handles>>

\* The thread leaves the waiters of its condition without a Signal().
Wake(t, exp) ==
  /\ pc[t] = "wait"
  /\ pc' = [pc EXCEPT ![t] = "woken"]
  /\ expired' = [expired EXCEPT ![t] = exp]
  /\ cond_not_full_' = cond_not_full_ \ {t}
  /\ cond_not_empty_' = cond_not_empty_ \ {t}
  /\ UNCHANGED <<chan, queue_lock_, op, val, timeout, elapsed, waited, ret,
                 next_val, logs, close_count, timed, drain, phal, handles>>

\* WaitWithTimeout runs into its timeout: it will return true.
Expire(t) ==
  /\ DeadlineReached(t)
  /\ Wake(t, TRUE)

\* "signals may be delivered without an actual call to Signal()"
SpuriousWake(t) ==
  /\ ~(timed /\ DeadlineReached(t))
  /\ Wake(t, FALSE)

Step(t) ==
  \/ Lock(t)
  \/ Close(t)
  \/ IsClosed(t)
  \/ Write(t)
  \/ WriteWake(t)
  \/ TryWrite(t)
  \/ Read(t)
  \/ ReadWake(t)
  \/ TryRead(t)
  \/ ReadAll(t)
  \/ Expire(t)
  \/ SpuriousWake(t)

Next == \E t \in Threads : Step(t)

Spec == Init /\ [][Next]_vars

\* The same channel with time measured in ticks, used by the first
\* TimedThreads threads.
TimedInit == InitChannel /\ InitHandles /\ timed = TRUE /\ drain = {} /\ InitPhal

TimedNext == (\E t \in 1..TimedThreads : Step(t)) \/ Tick

TimedSpec == TimedInit /\ [][TimedNext]_vars

\* A woken thread takes the mutex again.
Relock(t) == pc[t] = "woken" /\ Lock(t)

\* A thread that holds the mutex runs the body of its method.
Body(t) ==
  \/ Close(t)
  \/ IsClosed(t)
  \/ Write(t)
  \/ WriteWake(t)
  \/ TryWrite(t)
  \/ Read(t)
  \/ ReadWake(t)
  \/ TryRead(t)
  \/ ReadAll(t)

\* Fair scheduling: a thread that holds the mutex goes on, and a woken
\* thread that finds the mutex free again and again gets it in the end.
FairInit == Init /\ max_depth_ <= FairMaxDepth

FairSpec ==
  /\ FairInit
  /\ [][Next]_vars
  /\ \A t \in Threads : WF_vars(Body(t)) /\ SF_vars(Relock(t))

\* ------------------------------------------- the handles and ownership

\* ChannelReader<T> and ChannelWriter<T>
HandleKinds == {"ChannelReader", "ChannelWriter"}

\* The threads waiting in a Read() of a reader / a Write() of a writer, and
\* the threads inside a method of the channel.
InRead == {u \in Threads : pc[u] \in {"wait", "woken", "reheld"} /\ op[u] = "Read"}
InWrite == {u \in Threads : pc[u] \in {"wait", "woken", "reheld"} /\ op[u] = "Write"}
InCall == {u \in Threads : pc[u] \in {"held", "wait", "woken", "reheld"}}

\* The threads inside Create(), each with the channel parameter of its call.
InCreate == {u \in Threads : pc[u] \in {"create", "create_held", "create_open"}}

\* The owners c (creator), r (readers) and w (writers) leave no thread
\* inside a call through a reference that is gone.
InUse(c, r, w) ==
  /\ InRead # {} => r > 0
  /\ InWrite # {} => w > 0
  /\ InCall # {} => (c \/ r > 0 \/ w > 0)

\* ~shared_ptr(): one share is given up, and the holder of the last share
\* deletes the channel.
ReleaseShare ==
  /\ use_count' = use_count - 1
  /\ alive' = IF use_count = 1 THEN FALSE ELSE alive

\* Create(nullptr): "if (!channel ...) return nullptr;"
CreateNull(t, k) ==
  /\ pc[t] = "idle"
  /\ ret' = [op |-> k, status |-> "nullptr", vals |-> <<>>]
  /\ UNCHANGED <<chan, queue_lock_, conds, pc, locals, next_val, logs,
                 close_count, timed, drain, phal, handles>>

\* A thread calls ChannelReader<T>::Create(channel) or
\* ChannelWriter<T>::Create(channel): the parameter is a copy of the
\* creator's shared_ptr.
CreateCall(t, k) ==
  /\ pc[t] = "idle"
  /\ channel
  /\ readers + writers + Cardinality(InCreate) < MaxHandles
  /\ pc' = [pc EXCEPT ![t] = "create"]
  /\ op' = [op EXCEPT ![t] = k]
  /\ use_count' = use_count + 1
  /\ UNCHANGED <<chan, queue_lock_, conds, val, timeout, expired, elapsed,
                 waited, ret, next_val, logs, close_count, timed, drain, phal, channel,
                 readers, writers, alive>>

\* channel->IsClosed() in Create(): absl::MutexLock l(&queue_lock_)
CreateLock(t) ==
  /\ pc[t] = "create"
  /\ queue_lock_ = NoThread
  /\ queue_lock_' = t
  /\ pc' = [pc EXCEPT ![t] = "create_held"]
  /\ UNCHANGED <<chan, conds, locals, ret, next_val, logs, close_count, timed, drain, phal,
                 handles>>

\* Create() that does not look at IsClosed().
CreateIsClosed_NoCheck(t) ==
  /\ pc[t] = "create_held"
  /\ queue_lock_ = t
  /\ queue_lock_' = NoThread
  /\ pc' = [pc EXCEPT ![t] = "create_open"]
  /\ UNCHANGED <<op, ret, handles>>
  /\ UNCHANGED <<chan, conds, val, timeout, expired, elapsed, waited, next_val,
                 logs, close_count, timed, drain, phal>>

\* "if (... || channel->IsClosed()) return nullptr;": IsClosed() returns
\* closed_ and lets go of the mutex; on a closed channel Create() returns
\* nullptr and its parameter goes out of scope.
CreateIsClosed(t) ==
  /\ pc[t] = "create_held"
  /\ queue_lock_ = t
  /\ queue_lock_' = NoThread
  /\ IF closed_
       THEN /\ pc' = [pc EXCEPT ![t] = "idle"]
            /\ op' = [op EXCEPT ![t] = "none"]
            /\ ret' = [op |-> op[t], status |-> "nullptr", vals |-> <<>>]
            /\ ReleaseShare
            /\ UNCHANGED <<channel, readers, writers>>
       ELSE /\ pc' = [pc EXCEPT ![t] = "create_open"]
            /\ UNCHANGED <<op, ret, handles>>
  /\ UNCHANGED <<chan, conds, val, timeout, expired, elapsed, waited, next_val,
                 logs, close_count, timed, drain, phal>>

\* "return std::unique_ptr<...>(new ChannelReader(std::move(channel)));":
\* the share of the parameter moves into channel_ of the new handle.
CreateNew(t) ==
  /\ pc[t] = "create_open"
  /\ pc' = [pc EXCEPT ![t] = "idle"]
  /\ op' = [op EXCEPT ![t] = "none"]
  /\ ret' = [op |-> op[t], status |-> "handle", vals |-> <<>>]
  /\ IF op[t] = "ChannelReader"
       THEN readers' = readers + 1 /\ UNCHANGED writers
       ELSE writers' = writers + 1 /\ UNCHANGED readers
  /\ UNCHANGED <<chan, queue_lock_, conds, val, timeout, expired, elapsed,
                 waited, next_val, logs, close_count, timed, drain, phal, channel,
                 use_count, alive>>

\* ~ChannelReader() that deletes the channel it points to.
DestroyReader_DeletesChannel ==
  /\ readers > 0
  /\ InUse(channel, readers - 1, writers)
  /\ readers' = readers - 1
  /\ use_count' = use_count - 1
  /\ alive' = FALSE
  /\ UNCHANGED <<chan, queue_lock_, conds, pc, locals, ret, next_val, logs,
                 close_count, timed, drain, phal, channel, writers>>

\* ~ChannelReader(): a reader that no thread is reading through goes away,
\* and with it its channel_.
DestroyReader ==
  /\ readers > 0
  /\ InUse(channel, readers - 1, writers)
  /\ readers' = readers - 1
  /\ ReleaseShare
  /\ UNCHANGED <<chan, queue_lock_, conds, pc, locals, ret, next_val, logs,
                 close_count, timed, drain, phal, channel, writers>>

\* ~ChannelWriter(): the same for a writer.
DestroyWriter ==
  /\ writers > 0
  /\ InUse(channel, readers, writers - 1)
  /\ writers' = writers - 1
  /\ ReleaseShare
  /\ UNCHANGED <<chan, queue_lock_, conds, pc, locals, ret, next_val, logs,
                 close_count, timed, drain, phal, channel, readers>>

\* channel.reset(): the creator gives its reference up.
ChannelReset ==
  /\ channel
  /\ InUse(FALSE, readers, writers)
  /\ channel' = FALSE
  /\ ReleaseShare
  /\ UNCHANGED <<chan, queue_lock_, conds, pc, locals, ret, next_val, logs,
                 close_count, timed, drain, phal, readers, writers>>

\* A reader's TryRead that hands the front item out and leaves it queued.
ReaderTryRead_Peek(t) ==
  /\ readers > 0
  /\ pc[t] = "held"
  /\ IF closed_ THEN ReturnError(t, "TryRead", "ERR_CANCELLED")
     ELSE IF QueueEmpty THEN ReturnError(t, "TryRead", "ERR_ENTRY_NOT_FOUND")
     ELSE /\ Return(t, "TryRead", "OK", <<Front(queue_)>>, {}, expired)
          /\ delivered' = Append(delivered, Front(queue_))
          /\ UNCHANGED <<queue_, closed_, conds, written, close_count>>
  /\ UNCHANGED next_val

\* ChannelReader<T>: Read, TryRead, ReadAll and IsClosed "are wrappers
\* around the corresponding Channel functionality".
ReaderRead(t) == readers > 0 /\ Read(t)
ReaderTryRead(t) == readers > 0 /\ TryRead(t)
ReaderReadAll(t) == readers > 0 /\ ReadAll(t)

\* ChannelWriter<T>: Write and TryWrite, wrappers likewise.
WriterWrite(t) == writers > 0 /\ Write(t)
WriterTryWrite(t) == writers > 0 /\ TryWrite(t)

\* IsClosed() of a reader, of a writer or of the channel itself.
HandleIsClosed(t) == (channel \/ readers > 0 \/ writers > 0) /\ IsClosed(t)

\* What a thread does with the references there are: Close() through the
\* creator's reference, IsClosed() through any, Write()/TryWrite() through a
\* writer, Read()/TryRead()/ReadAll() through a reader.
HandleStep(t) ==
  \/ (pc[t] = "idle" => channel \/ readers > 0 \/ writers > 0) /\ Lock(t)
  \/ channel /\ Close(t)
  \/ HandleIsClosed(t)
  \/ WriterWrite(t)
  \/ WriteWake(t)
  \/ WriterTryWrite(t)
  \/ ReaderRead(t)
  \/ ReadWake(t)
  \/ ReaderTryRead(t)
  \/ ReaderReadAll(t)
  \/ Expire(t)
  \/ SpuriousWake(t)
  \/ \E k \in HandleKinds : CreateNull(t, k)
  \/ \E k \in HandleKinds : CreateCall(t, k)
  \/ CreateLock(t)
  \/ CreateIsClosed(t)
  \/ CreateNew(t)

\* Channel<T>::Create(max_depth), held by its creator alone; HandleThreads
\* threads create, use and destroy handles.
HandleInit ==
  /\ InitChannel
  /\ InitPhal
  /\ timed = FALSE
  /\ drain = {}
  /\ channel = TRUE
  /\ readers = 0
  /\ writers = 0
  /\ use_count = 1
  /\ alive = TRUE

HandleNext ==
  \/ \E t \in 1..HandleThreads : HandleStep(t)
  \/ DestroyReader
  \/ DestroyWriter
  \/ ChannelReset

HandleSpec == HandleInit /\ [][HandleNext]_vars

\* ------------------------------------- the writers a ReadAll has woken

\* The threads blocked in a Write() with the unbounded timeout.
DrainWriters ==
  {t \in Threads : /\ pc[t] \in {"wait", "woken", "reheld"}
                   /\ op[t] = "Write" /\ timeout[t] = InfiniteDuration}

\* A ReadAll has just emptied the queue of the open channel while the
\* threads of DrainWriters were blocked and no other thread is in a call:
\* from here on only these writers go on (no further reads, no Close()).
MarkDrain ==
  /\ drain = {}
  /\ ret.op = "ReadAll" /\ ret.status = "OK"
  /\ ~closed_ /\ queue_ = <<>>
  /\ DrainWriters # {}
  /\ \A t \in Threads \ DrainWriters : pc[t] = "idle"
  /\ drain' = DrainWriters
  /\ UNCHANGED <<chan, queue_lock_, conds, pc, locals, ret, next_val, logs,
                 close_count, timed, handles, phal>>

\* What a woken writer does: it takes the mutex again, goes on in Write()
\* and may wake up for no reason when it waits again.
DrainStep(t) ==
  /\ pc[t] # "idle"
  /\ \/ Lock(t)
     \/ WriteWake(t)
     \/ SpuriousWake(t)

DrainNext ==
  \/ drain = {} /\ \E t \in Threads : Step(t)
  \/ MarkDrain
  \/ \E t \in drain : DrainStep(t)

\* Fair scheduling as in FairSpec.
DrainSpec ==
  /\ Init
  /\ [][DrainNext]_vars
  /\ \A t \in Threads : WF_vars(Body(t)) /\ SF_vars(Relock(t))

\* ------------------------------------------------------------- GbPhal

\* Everything of the channel, which GbPhal leaves alone.
nonphal == <<chan, queue_lock_, conds, pc, locals, ret, next_val, logs,
             close_count, timed, handles, drain>>

\* GbPhal::GbPhal() : gb_interface_(nullptr) {}  with  initialized_ = false
Construct(a) ==
  /\ instances' = instances \cup {a}
  /\ initialized_' = [initialized_ EXCEPT ![a] = FALSE]
  /\ gb_interface_' = [gb_interface_ EXCEPT ![a] = nullptr]

\* GbPhal *GbPhal::CreateSingleton(GbInterface *gb_interface):
\*   absl::WriterMutexLock l(&init_lock_);
CreateSingletonLock(t, g) ==
  /\ gb_pc[t] = "idle"
  /\ init_lock_ = NoThread
  /\ init_lock_' = t
  /\ gb_interface' = [gb_interface EXCEPT ![t] = g]
  /\ gb_pc' = [gb_pc EXCEPT ![t] = "locked"]
  /\ UNCHANGED <<singleton_, instances, initialized_, gb_interface_, status,
                 received, returned, gb_ret, nonphal>>

\*   if (!singleton_) { singleton_ = new GbPhal(); }
\* operator new returns any address at which no object is, an address freed
\* before included.
CreateSingletonNew(t) ==
  /\ gb_pc[t] = "locked"
  /\ IF singleton_ = nullptr
       THEN \E a \in Addresses \ instances :
              /\ singleton_' = a
              /\ Construct(a)
       ELSE UNCHANGED <<singleton_, instances, initialized_, gb_interface_>>
  /\ gb_pc' = [gb_pc EXCEPT ![t] = "created"]
  /\ UNCHANGED <<init_lock_, gb_interface, status, received, returned, gb_ret,
                 nonphal>>

\* Initialize that stores the interface whenever one is given.
Initialize_Overwrite(t) ==
  /\ gb_pc[t] = "created"
  /\ IF gb_interface[t] # nullptr
       THEN /\ gb_interface_' =
                 [gb_interface_ EXCEPT ![singleton_] = gb_interface[t]]
            /\ initialized_' = [initialized_ EXCEPT ![singleton_] = TRUE]
            /\ status' = [status EXCEPT ![t] = "OK"]
       ELSE /\ status' = [status EXCEPT ![t] =
                            IF initialized_[singleton_] THEN "OK"
                                                        ELSE "ERR_INTERNAL"]
            /\ UNCHANGED <<initialized_, gb_interface_>>
  /\ gb_pc' = [gb_pc EXCEPT ![t] = "initialized"]
  /\ UNCHANGED <<singleton_, init_lock_, instances, gb_interface, received,
                 returned, gb_ret, nonphal>>

\*   auto status = singleton_->Initialize(gb_interface);
\* ::util::Status GbPhal::Initialize(GbInterface *gb_interface), one critical
\* section of config_lock_:
\*   if (!initialized_) {
\*     CHECK_RETURN_IF_FALSE(gb_interface != nullptr);
\*     gb_interface_ = gb_interface;  initialized_ = true;
\*   }
\*   return ::util::OkStatus();
Initialize(t) ==
  /\ gb_pc[t] = "created"
  /\ IF initialized_[singleton_]
       THEN /\ status' = [status EXCEPT ![t] = "OK"]
            /\ UNCHANGED <<initialized_, gb_interface_>>
       ELSE IF gb_interface[t] = nullptr
         THEN /\ status' = [status EXCEPT ![t] = "ERR_INTERNAL"]
              /\ UNCHANGED <<initialized_, gb_interface_>>
         ELSE /\ gb_interface_' =
                   [gb_interface_ EXCEPT ![singleton_] = gb_interface[t]]
              /\ initialized_' = [initialized_ EXCEPT ![singleton_] = TRUE]
              /\ status' = [status EXCEPT ![t] = "OK"]
  /\ gb_pc' = [gb_pc EXCEPT ![t] = "initialized"]
  /\ UNCHANGED <<singleton_, init_lock_, instances, gb_interface, received,
                 returned, gb_ret, nonphal>>

\*   if (!status.ok()) { delete singleton_; singleton_ = nullptr; }
\*   return singleton_;
\* and the lock l releases init_lock_. The memory of a deleted object is
\* kept as the constructor leaves it.
CreateSingletonReturn(t) ==
  /\ gb_pc[t] = "initialized"
  /\ IF status[t] # "OK"
       THEN /\ instances' = instances \ {singleton_}
            /\ initialized_' = [initialized_ EXCEPT ![singleton_] = FALSE]
            /\ gb_interface_' = [gb_interface_ EXCEPT ![singleton_] = nullptr]
            /\ singleton_' = nullptr
            /\ returned' = returned \ {singleton_}
            /\ UNCHANGED received
       ELSE /\ received' = received \cup {singleton_}
            /\ returned' = returned \cup {singleton_}
            /\ UNCHANGED <<singleton_, instances, initialized_, gb_interface_>>
  /\ gb_ret' = [op |-> "CreateSingleton", value |-> singleton_']
  /\ init_lock_' = NoThread
  /\ gb_pc' = [gb_pc EXCEPT ![t] = "idle"]
  /\ UNCHANGED <<gb_interface, status, nonphal>>

\* ::util::Status GbPhal::Shutdown(), called through a pointer p that
\* CreateSingleton returned, one critical section of config_lock_:
\*   gb_interface_ = nullptr;  initialized_ = false;
\* Through a pointer to a deleted object the two stores go either to freed
\* memory (nothing that exists changes) or to the object that operator new
\* has put at the same address since.
Shutdown(t, p) ==
  /\ gb_pc[t] = "idle"
  /\ p \in received
  /\ gb_interface_' = [gb_interface_ EXCEPT ![p] = nullptr]
  /\ initialized_' = [initialized_ EXCEPT ![p] = FALSE]
  /\ gb_ret' = [op |-> "Shutdown", value |-> p]
  /\ UNCHANGED <<singleton_, init_lock_, instances, gb_pc, gb_interface,
                 status, received, returned, nonphal>>

PhalStep(t) ==
  \/ \E g \in Interfaces \cup {nullptr} : CreateSingletonLock(t, g)
  \/ CreateSingletonNew(t)
  \/ Initialize(t)
  \/ CreateSingletonReturn(t)
  \/ \E p \in Addresses : Shutdown(t, p)

PhalNext == \E t \in 1..PhalThreads : PhalStep(t)

PhalSpec == Init /\ [][PhalNext]_vars

\* ------------------------------------------------------------- claims

DataOps == {"Write", "TryWrite", "Read", "TryRead", "ReadAll"}

\* Thread t returns from a method in this step.
Returns(t) == pc[t] \in {"held", "reheld"} /\ pc'[t] = "idle"

\* Thread t returns from method o in this step.
ReturnsFrom(t, o) == Returns(t) /\ ret'.op = o

\* C1: in every reachable state the queue length is at most the capacity
\* the channel was created with.
C1_QueueWithinCapacity == Len(queue_) <= max_depth_

\* A channel of the largest capacity is full and has refused one more
\* write.
C1_Witness ==
  /\ max_depth_ = MaxDepth
  /\ Len(queue_) = max_depth_
  /\ ret.op \in {"Write", "TryWrite"} /\ ret.status = "ERR_NO_RESOURCE"

\* C6: the values handed out by the successful reads, in the order the
\* reads complete, are a prefix of the values accepted by the successful
\* writes, in the order the writes complete.
C6_Fifo ==
  /\ Len(delivered) <= Len(written)
  /\ \A i \in 1..Len(delivered) : delivered[i] = written[i]

\* Three values went through the channel in an order that is not the order
\* in which their writers picked them, and all three were read.
C6_Witness ==
  /\ Len(delivered) = 3
  /\ delivered # <<1, 2, 3>>
  /\ written = delivered

\* C7: no item is handed out twice, by whichever readers.
C7_DeliveredOnce ==
  \A i, j \in 1..Len(delivered) : i # j => delivered[i] # delivered[j]

\* A reader that was signalled finds the item gone: another reader's
\* successful read has taken it.
C7_Witness ==
  /\ \E t \in Threads :
       pc[t] = "woken" /\ op[t] = "Read" /\ ~expired[t]
  /\ QueueEmpty
  /\ Len(delivered) >= 2
  /\ ret.op \in {"Read", "TryRead", "ReadAll"} /\ ret.status = "OK"

\* C2: a Write, TryWrite, Read, TryRead or ReadAll that takes the mutex
\* after Close() has made the transition returns Cancelled, whatever the
\* queue holds, and neither enqueues nor dequeues.
C2_CloseFinality ==
  [][\A t \in Threads :
       (closed_ /\ pc[t] = "held" /\ pc'[t] # "held") =>
         /\ pc'[t] = "idle"
         /\ queue_' = queue_
         /\ written' = written
         /\ delivered' = delivered
         /\ ret'.op \in DataOps => ret'.status = "ERR_CANCELLED" /\ ret'.vals = <<>>
    ]_vars

\* A TryRead on a closed channel whose queue holds an item was cancelled.
C2_Witness ==
  /\ closed_
  /\ Len(queue_) > 0
  /\ ret.op = "TryRead" /\ ret.status = "ERR_CANCELLED"

\* C3: closed_ starts false, changes only from false to true and only in a
\* Close() that returns true; IsClosed() returns the value of closed_ and
\* changes nothing of the channel.
C3_ClosedFlag ==
  /\ ~closed_
  /\ [][/\ closed_' # closed_ =>
             /\ ~closed_ /\ closed_'
             /\ \E t \in Threads : ReturnsFrom(t, "Close") /\ ret'.status = "true"
        /\ \A t \in Threads : ReturnsFrom(t, "IsClosed") =>
             /\ ret'.status = (IF closed_ THEN "true" ELSE "false")
             /\ UNCHANGED <<chan, conds, logs>>
        /\ (closed_ /\ \E t \in Threads : ReturnsFrom(t, "IsClosed")) =>
             ret'.status = "true"
       ]_vars

\* IsClosed() has returned true on a closed channel.
C3_Witness ==
  /\ closed_
  /\ ret.op = "IsClosed" /\ ret.status = "true"

\* C4: Close() returns true exactly when closed_ was false as it held the
\* mutex; a Close() on a closed channel returns false and changes nothing;
\* at most one Close() returns true.
C4_CloseOnce ==
  /\ [](close_count <= 1)
  /\ [][\A t \in Threads : ReturnsFrom(t, "Close") =>
          /\ ret'.status = (IF closed_ THEN "false" ELSE "true")
          /\ closed_ => UNCHANGED <<chan, conds, logs, close_count>>
       ]_vars

\* A second Close() has returned false.
C4_Witness ==
  /\ close_count = 1
  /\ ret.op = "Close" /\ ret.status = "false"

\* C8: a TryWrite on an open channel returns in its one step under the
\* mutex: ResourceExhausted, with the queue as it was, when the queue length
\* equals the capacity, and otherwise success with the value at the tail.
C8_TryWrite ==
  [][\A t \in Threads :
       /\ pc'[t] \in {"wait", "woken", "reheld"} => op'[t] \in {"Write", "Read"}
       /\ (ReturnsFrom(t, "TryWrite") /\ ~closed_) =>
            /\ pc[t] = "held"
            /\ IF Len(queue_) = max_depth_
                 THEN ret'.status = "ERR_NO_RESOURCE" /\ queue_' = queue_
                 ELSE ret'.status = "OK" /\ queue_' = Append(queue_, next_val)
    ]_vars

\* Capacity 2: two writes filled the queue, one item was read, and the
\* TryWrite that followed succeeded.
C8_Witness ==
  /\ max_depth_ = 2
  /\ Len(written) = 3 /\ Len(delivered) = 1 /\ Len(queue_) = 2
  /\ ret.op = "TryWrite" /\ ret.status = "OK"

\* C9: a Write returns ResourceExhausted only after a wait of its own that
\* expired, with the channel open and the queue full; a Write goes into a
\* wait only when the channel is open and the queue is full; and a writer
\* whose wait expired and that finds the channel open with a free slot
\* enqueues its value and returns success.
C9_WriteTimeout ==
  [][\A t \in Threads :
       /\ (ReturnsFrom(t, "Write") /\ ret'.status = "ERR_NO_RESOURCE") =>
            /\ pc[t] = "reheld" /\ expired[t] /\ timeout[t] # InfiniteDuration
            /\ ~closed_ /\ Len(queue_) = max_depth_
       /\ (pc[t] \in {"held", "reheld"} /\ pc'[t] = "wait" /\ op'[t] = "Write") =>
            ~closed_ /\ Len(queue_) = max_depth_
       /\ (pc[t] = "reheld" /\ op[t] = "Write" /\ expired[t]
             /\ ~closed_ /\ Len(queue_) < max_depth_ /\ pc'[t] # "reheld") =>
            /\ pc'[t] = "idle"
            /\ ret'.op = "Write" /\ ret'.status = "OK"
            /\ queue_' = Append(queue_, val[t])
    ]_vars

\* A writer whose wait expired holds the mutex again and finds a free slot.
C9_Witness ==
  \E t \in Threads :
    /\ pc[t] = "reheld" /\ op[t] = "Write" /\ expired[t]
    /\ ~closed_ /\ Len(queue_) < max_depth_

\* C10: a Write or Read called with a finite timeout spends at most that
\* timeout waiting, summed over all the waits of its loop.
C10_WaitWithinTimeout ==
  \A t \in Threads :
    (pc[t] \in {"wait", "woken", "reheld"} /\ timeout[t] # InfiniteDuration) =>
      waited[t] <= timeout[t]

\* The threads inside a WaitWithTimeout: waiting, or woken and after the mutex.
Blocked == {t \in Threads : pc[t] \in {"wait", "woken", "reheld"}}

\* C5: under fair scheduling every thread that is waiting in Write or Read
\* when Close() takes effect returns, and what it returns is Cancelled:
\* Close() leaves no thread waiting, no thread starts to wait on a closed
\* channel, a woken thread that finds the channel closed returns Cancelled
\* without touching the queue, and in the end no thread is left blocked.
C5_UnblockOnClose ==
  /\ [](closed_ => cond_not_full_ = {} /\ cond_not_empty_ = {})
  /\ [][\A t \in Threads :
          /\ (closed_ /\ pc'[t] \in {"wait", "woken"}) => pc[t] = "woken"
          /\ (closed_ /\ pc[t] = "reheld" /\ pc'[t] # "reheld") =>
               /\ pc'[t] = "idle"
               /\ ret'.op = op[t] /\ ret'.status = "ERR_CANCELLED"
               /\ UNCHANGED <<queue_, logs>>
       ]_vars
  /\ closed_ ~> (Blocked = {})

\* Close() has woken a writer and a reader that were both waiting with the
\* unbounded timeout.
C5_Witness ==
  /\ closed_
  /\ ret.op = "Close" /\ ret.status = "true"
  /\ \E t, u \in Threads :
       /\ pc[t] = "woken" /\ op[t] = "Write" /\ timeout[t] = InfiniteDuration
       /\ pc[u] = "woken" /\ op[u] = "Read" /\ timeout[u] = InfiniteDuration

\* C11: a Read on an open channel returns NotFound only after a wait of
\* its own that expired, with the queue empty at that moment; it goes into a
\* wait only when the channel is open and the queue is empty; and a reader
\* that holds the mutex with the channel open and the queue not empty (at
\* the top of Read, after a signal or after an expired wait) takes the front
\* item off the queue and returns it with success.
C11_ReadTimeout ==
  [][\A t \in Threads :
       /\ (ReturnsFrom(t, "Read") /\ ret'.status = "ERR_ENTRY_NOT_FOUND") =>
            /\ pc[t] = "reheld" /\ expired[t] /\ timeout[t] # InfiniteDuration
            /\ ~closed_ /\ Len(queue_) = 0
            /\ ret'.vals = <<>> /\ UNCHANGED <<queue_, logs>>
       /\ (pc[t] \in {"held", "reheld"} /\ pc'[t] = "wait" /\ op'[t] = "Read") =>
            ~closed_ /\ Len(queue_) = 0
       /\ (ReturnsFrom(t, "Read") /\ ~closed_ /\ Len(queue_) > 0) =>
            /\ ret'.status = "OK" /\ ret'.vals = <<Head(queue_)>>
            /\ queue_' = Tail(queue_)
       /\ (pc[t] = "reheld" /\ op[t] = "Read"
             /\ ~closed_ /\ Len(queue_) > 0 /\ pc'[t] # "reheld") =>
            /\ pc'[t] = "idle"
            /\ ret'.op = "Read" /\ ret'.status = "OK"
            /\ ret'.vals = <<Head(queue_)>>
            /\ queue_' = Tail(queue_)
    ]_vars

\* A reader whose wait expired holds the mutex again and finds an item in
\* the queue of the open channel.
C11_Witness ==
  \E t \in Threads :
    /\ pc[t] = "reheld" /\ op[t] = "Read" /\ expired[t]
    /\ ~closed_ /\ Len(queue_) > 0

\* C12: a TryRead returns in its one step under the mutex and is never
\* among the waiting threads; on an open channel it returns NotFound and
\* leaves the queue as it was when the queue is empty, and otherwise returns
\* the front item with success and leaves the other items in their order.
C12_TryRead ==
  [][\A t \in Threads :
       /\ ReturnsFrom(t, "TryRead") => pc[t] = "held"
       /\ pc'[t] \in {"wait", "woken", "reheld"} => op'[t] # "TryRead"
       /\ (ReturnsFrom(t, "TryRead") /\ ~closed_) =>
            IF Len(queue_) = 0
              THEN /\ ret'.status = "ERR_ENTRY_NOT_FOUND" /\ ret'.vals = <<>>
                   /\ UNCHANGED <<queue_, logs>>
              ELSE /\ ret'.status = "OK" /\ ret'.vals = <<queue_[1]>>
                   /\ queue_' = SubSeq(queue_, 2, Len(queue_))
                   /\ delivered' = Append(delivered, queue_[1])
    ]_vars

\* A TryRead took the front item of a queue of two and left the other one.
C12_Witness ==
  /\ ret.op = "TryRead" /\ ret.status = "OK"
  /\ Len(queue_) = 1 /\ Len(written) = 2
  /\ delivered = <<written[1]>> /\ ret.vals = delivered
  /\ queue_ = <<written[2]>>

\* C13: a ReadAll is one step under the mutex; on an open channel it
\* returns success with exactly the queue of that moment, in queue order,
\* also when that queue is empty, and leaves the queue empty; every item it
\* returns was accepted from a writer and is handed out this once only.
C13_ReadAllAtomic ==
  /\ [][\A t \in Threads :
          /\ ReturnsFrom(t, "ReadAll") => pc[t] = "held"
          /\ (ReturnsFrom(t, "ReadAll") /\ ~closed_) =>
               /\ ret'.status = "OK" /\ ret'.vals = queue_
               /\ queue_' = <<>>
               /\ delivered' = delivered \o queue_
               /\ \A i \in 1..Len(queue_) :
                    /\ \E j \in 1..Len(written) : written[j] = queue_[i]
                    /\ \A j \in 1..Len(delivered) : delivered[j] # queue_[i]
               /\ UNCHANGED <<written, closed_>>
       ]_vars
  /\ [](\A i, j \in 1..Len(delivered) : delivered[i] = delivered[j] => i = j)

\* A ReadAll has returned two items at once while a writer was waiting for
\* a free slot.
C13_Witness ==
  /\ ret.op = "ReadAll" /\ ret.status = "OK" /\ Len(ret.vals) = 2
  /\ queue_ = <<>>
  /\ \E t \in Threads : pc[t] = "woken" /\ op[t] = "Write"

\* The shares the owners account for: the creator's reference, the
\* handles, and the parameter of every Create() in progress.
Owners ==
  (IF channel THEN 1 ELSE 0) + readers + writers + Cardinality(InCreate)

\* C14: Create() of a reader or of a writer returns nullptr for an absent
\* reference, without touching anything, and for a channel that IsClosed()
\* finds closed (as it does whenever Close() took effect before the call),
\* and then the share of its parameter is given back; for a channel that
\* IsClosed() finds open it returns a handle to the live channel, which
\* takes the share of the parameter; no Create() changes the queue, the
\* closed flag or the waiters, and a failed one leaves the handles and the
\* number of owners as they were.
C14_HandleCreate ==
  /\ [][\A t \in Threads :
          /\ (pc[t] = "create_held" /\ pc'[t] # "create_held") =>
               /\ UNCHANGED <<chan, conds, logs, channel, readers, writers>>
               /\ IF closed_
                    THEN /\ pc'[t] = "idle"
                         /\ ret'.op = op[t] /\ ret'.status = "nullptr"
                         /\ use_count' = use_count - 1
                    ELSE /\ pc'[t] = "create_open"
                         /\ use_count' = use_count
          /\ (pc[t] = "create_open" /\ pc'[t] # "create_open") =>
               /\ pc'[t] = "idle"
               /\ ret'.op = op[t] /\ ret'.status = "handle"
               /\ readers' = readers + (IF op[t] = "ChannelReader" THEN 1 ELSE 0)
               /\ writers' = writers + (IF op[t] = "ChannelWriter" THEN 1 ELSE 0)
               /\ alive'
               /\ UNCHANGED <<chan, conds, logs, channel, use_count, alive>>
       ]_vars
  /\ [][(ret' # ret /\ ret'.status = "nullptr") =>
          /\ UNCHANGED <<chan, conds, logs, channel, readers, writers>>
          /\ Owners' = use_count'
          /\ (\A t \in Threads : pc'[t] = pc[t]) => UNCHANGED handles
       ]_vars

\* The creation of a reader on a closed channel failed; the writer created
\* before Close() exists, and the creator and the writer are the owners.
C14_Witness ==
  /\ closed_
  /\ ret.op = "ChannelReader" /\ ret.status = "nullptr"
  /\ channel /\ writers = 1 /\ readers = 0
  /\ InCreate = {} /\ use_count = 2

\* C15: the channel exists as long as the creator's reference, a handle or
\* a Create() in progress holds a share, and it is destroyed when the last
\* share is given up; giving up a handle or the creator's reference takes
\* one share away and changes neither the queue nor the closed flag nor the
\* other handles.
C15_SharedOwnership ==
  /\ [](use_count = Owners)
  /\ [](alive <=> use_count > 0)
  /\ []((channel \/ readers > 0 \/ writers > 0) => alive)
  /\ [][(readers' < readers \/ writers' < writers \/ (channel /\ ~channel')) =>
          /\ use_count' = use_count - 1
          /\ (readers - readers') + (writers - writers')
               + (IF channel /\ ~channel' THEN 1 ELSE 0) = 1
          /\ alive' = (channel' \/ readers' > 0 \/ writers' > 0 \/ InCreate # {})
          /\ UNCHANGED <<chan, conds, logs, pc, ret>>
       ]_vars

\* The creator has given its reference up and the writer is gone; the
\* reader is the last owner of the open channel, which still holds an item.
C15_Witness ==
  /\ ~channel /\ writers = 0 /\ readers = 1
  /\ InCreate = {}
  /\ alive /\ ~closed_ /\ Len(queue_) > 0

\* The writers that wait for a free slot with the unbounded timeout, and the
\* writers that a wake-up has reached and that have yet to look at the queue.
UnboundedWriters ==
  {t \in Threads : /\ pc[t] \in {"wait", "woken", "reheld"}
                   /\ op[t] = "Write" /\ timeout[t] = InfiniteDuration}
WokenWriters == {t \in Threads : pc[t] \in {"woken", "reheld"} /\ op[t] = "Write"}

\* C16: a Write with the unbounded timeout that waits on a full open channel
\* returns only from under the mutex, with Cancelled on a closed channel or
\* with success, its value at the tail, when there is a free slot, and waits
\* again when the queue is full; while writers wait on the open channel, as
\* many wake-ups are under way as there are free slots; and under fair
\* scheduling the channel does not stay open with a free slot while an
\* unbounded Write stays blocked.
C16_WakeUpNotLost ==
  /\ [][\A t \in UnboundedWriters :
          /\ pc[t] \in {"wait", "woken"} => pc'[t] \in {"wait", "woken", "reheld"}
          /\ (pc[t] = "reheld" /\ pc'[t] # "reheld") =>
               IF closed_
                 THEN pc'[t] = "idle" /\ ret'.op = "Write"
                      /\ ret'.status = "ERR_CANCELLED"
               ELSE IF Len(queue_) = max_depth_
                 THEN pc'[t] = "wait" /\ t \in cond_not_full_'
                      /\ timeout'[t] = InfiniteDuration /\ val'[t] = val[t]
               ELSE pc'[t] = "idle" /\ ret'.op = "Write" /\ ret'.status = "OK"
                    /\ queue_' = Append(queue_, val[t])
       ]_vars
  /\ []((~closed_ /\ cond_not_full_ # {}) =>
          Cardinality(WokenWriters) >= max_depth_ - Len(queue_))
  /\ (UnboundedWriters # {} /\ ~closed_ /\ Len(queue_) < max_depth_)
       ~> (UnboundedWriters = {} \/ closed_ \/ Len(queue_) = max_depth_)

\* A read has freed the slot of a full channel of capacity 1 and woken the
\* writer that was waiting with the unbounded timeout; the writer holds the
\* mutex again and finds the slot free.
C16_Witness ==
  /\ max_depth_ = 1 /\ queue_ = <<>> /\ ~closed_
  /\ ret.op \in {"Read", "TryRead", "ReadAll"} /\ ret.status = "OK"
  /\ Len(ret.vals) = 1
  /\ \E t \in UnboundedWriters : pc[t] = "reheld" /\ ~expired[t]

\* C17: on a channel of capacity 0 the queue stays empty and nothing is
\* ever written or read: a TryWrite on the open channel returns
\* ResourceExhausted, a Write never returns success, returns at once only on
\* a closed channel and, with the unbounded timeout, returns only Cancelled
\* on the closed channel, and no read hands an item out.
C17_CapacityZero ==
  /\ [](max_depth_ = 0 => queue_ = <<>> /\ written = <<>> /\ delivered = <<>>)
  /\ [][max_depth_ = 0 => \A t \in Threads :
          /\ ReturnsFrom(t, "TryWrite") =>
               ret'.status = (IF closed_ THEN "ERR_CANCELLED" ELSE "ERR_NO_RESOURCE")
          /\ ReturnsFrom(t, "Write") =>
               /\ ret'.status \in {"ERR_NO_RESOURCE", "ERR_CANCELLED"}
               /\ pc[t] = "held" => closed_
               /\ ret'.status = "ERR_NO_RESOURCE" =>
                    pc[t] = "reheld" /\ timeout[t] # InfiniteDuration
               /\ (pc[t] = "reheld" /\ timeout[t] = InfiniteDuration) =>
                    closed_ /\ ret'.status = "ERR_CANCELLED"
          /\ (Returns(t) /\ ret'.op \in {"Read", "TryRead", "ReadAll"}) =>
               ret'.vals = <<>>
          /\ (Returns(t) /\ ret'.op \in {"Read", "TryRead"}) =>
               ret'.status \in {"ERR_ENTRY_NOT_FOUND", "ERR_CANCELLED"}
       ]_vars

\* Capacity 0: a TryWrite was refused while a writer with the unbounded
\* timeout and a reader are both waiting on the open channel.
C17_Witness ==
  /\ max_depth_ = 0 /\ ~closed_
  /\ ret.op = "TryWrite" /\ ret.status = "ERR_NO_RESOURCE"
  /\ \E t, u \in Threads :
       /\ pc[t] = "wait" /\ op[t] = "Write" /\ timeout[t] = InfiniteDuration
       /\ pc[u] = "wait" /\ op[u] = "Read"

\* C18: no method returns Internal, and whenever a thread holds the mutex
\* neither CheckWriteState() nor CheckWriteStateAndBlock() comes to the
\* status Internal: the queue is not longer than the capacity.
C18_NeverInternal ==
  /\ ret.status # "ERR_INTERNAL"
  /\ \A t \in Threads : queue_lock_ = t =>
       /\ ~QueueOverrun
       /\ CheckWriteState # "ERR_INTERNAL"
       /\ \A first, exp \in BOOLEAN :
            CheckWriteStateAndBlock(first, exp) # "ERR_INTERNAL"

\* A write has filled the queue of the largest capacity, another writer is
\* waiting for a free slot, and a third thread holds the mutex.
C18_Witness ==
  /\ max_depth_ = MaxDepth /\ Len(queue_) = max_depth_ /\ ~closed_
  /\ ret.op \in {"Write", "TryWrite"} /\ ret.status = "OK"
  /\ \E t, u \in Threads :
       /\ pc[t] = "wait" /\ op[t] = "Write"
       /\ pc[u] = "held"

\* C19: a thread that comes out of the wait of a Write or a Read and finds
\* the channel closed returns Cancelled, whatever its WaitWithTimeout
\* returned and whatever the queue holds, and changes neither the queue nor
\* the waiters.
C19_CancelledAfterWait ==
  [][\A t \in Threads :
       (closed_ /\ pc[t] = "reheld" /\ pc'[t] # "reheld") =>
         /\ pc'[t] = "idle"
         /\ ret' = [op |-> op[t], status |-> "ERR_CANCELLED", vals |-> <<>>]
         /\ ret'.status \notin {"ERR_NO_RESOURCE", "ERR_ENTRY_NOT_FOUND", "OK"}
         /\ UNCHANGED <<queue_, written, delivered, conds>>
    ]_vars

\* On the closed channel a reader whose wait expired holds the mutex and
\* finds an item in the queue, and a woken writer will find a free slot.
C19_Witness ==
  /\ closed_
  /\ Len(queue_) > 0 /\ Len(queue_) < max_depth_
  /\ \E t, u \in Threads :
       /\ pc[t] = "reheld" /\ op[t] = "Read" /\ expired[t]
       /\ pc[u] = "woken" /\ op[u] = "Write"

\* C20: a thread is under the mutex exactly when it holds queue_lock_, so
\* at most one thread is, and a waiting thread is not; the queue and the
\* closed flag change, and a method returns or goes to wait, only in a step
\* of the holder, which gives the mutex up; and whatever number of threads
\* wait, an idle thread can take a free mutex and the holder can carry out
\* any of the methods.
C20_SingleLock ==
  /\ [](\A t \in Threads : pc[t] \in {"held", "reheld"} <=> queue_lock_ = t)
  /\ [](\A t \in Threads : pc[t] \in {"wait", "woken"} => queue_lock_ # t)
  /\ [][\A t \in Threads :
          /\ (Returns(t) \/ (pc[t] # "wait" /\ pc'[t] = "wait")) =>
               queue_lock_ = t /\ queue_lock_' = NoThread
          /\ (queue_' # queue_ \/ closed_' # closed_ \/ ret' # ret) =>
               /\ queue_lock_ # NoThread
               /\ pc'[queue_lock_] = "idle"
               /\ queue_lock_' = NoThread
       ]_vars
  /\ [](\A t \in Threads :
          /\ (pc[t] = "idle" /\ queue_lock_ = NoThread) => ENABLED Lock(t)
          /\ pc[t] = "held" =>
               /\ ENABLED Close(t) /\ ENABLED IsClosed(t)
               /\ ENABLED Read(t) /\ ENABLED TryRead(t) /\ ENABLED ReadAll(t)
               /\ next_val <= MaxVal => ENABLED Write(t) /\ ENABLED TryWrite(t))

\* A reader and a writer are waiting and the third thread holds the mutex.
C20_Witness ==
  \E t, u, v \in Threads :
    /\ pc[t] = "wait" /\ op[t] = "Read"
    /\ pc[u] = "wait" /\ op[u] = "Write"
    /\ pc[v] = "held" /\ queue_lock_ = v

\* C21: the Close() that makes the transition sets closed_ and leaves the
\* queue, the capacity and the values written and handed out as they are;
\* on a closed channel the queue never changes again and nothing more is
\* written or handed out, so the items queued at that moment stay queued
\* and undelivered.
C21_CloseFrame ==
  /\ [][(~closed_ /\ closed_') =>
          /\ UNCHANGED <<queue_, max_depth_, written, delivered>>
          /\ \E t \in Threads : ReturnsFrom(t, "Close")
       ]_vars
  /\ [][closed_ => UNCHANGED <<queue_, written, delivered>>]_vars
  /\ [](closed_ =>
          \A i \in 1..Len(queue_) : \A j \in 1..Len(delivered) :
            queue_[i] # delivered[j])

\* A ReadAll on the closed channel was cancelled and left the two items
\* that were queued at the Close() where they are.
C21_Witness ==
  /\ closed_
  /\ Len(queue_) = 2 /\ delivered = <<>>
  /\ ret.op = "ReadAll" /\ ret.status = "ERR_CANCELLED"

\* The threads a step takes out of the waiters of the two conditions.
WokenFromNotEmpty == cond_not_empty_ \ cond_not_empty_'
WokenFromNotFull == cond_not_full_ \ cond_not_full_'

\* C22: a successful Write or TryWrite wakes one of the threads waiting in
\* Read, if there is one, and no waiting writer; a successful Read or
\* TryRead wakes one of the threads waiting in Write, if there is one, and
\* no waiting reader; a successful ReadAll wakes all the waiting writers and
\* no reader; the Close() that makes the transition wakes all the waiting
\* writers and readers; no other return wakes anybody, and every thread
\* taken off the waiters by a return has been woken.
C22_SignalOne ==
  [][\A t \in Threads : Returns(t) =>
       /\ \A u \in WokenFromNotEmpty \cup WokenFromNotFull :
            pc[u] = "wait" /\ pc'[u] = "woken"
       /\ IF ret'.op \in {"Write", "TryWrite"} /\ ret'.status = "OK"
            THEN /\ Cardinality(WokenFromNotEmpty) =
                      (IF cond_not_empty_ = {} THEN 0 ELSE 1)
                 /\ cond_not_full_' = cond_not_full_
          ELSE IF ret'.op \in {"Read", "TryRead"} /\ ret'.status = "OK"
            THEN /\ Cardinality(WokenFromNotFull) =
                      (IF cond_not_full_ = {} THEN 0 ELSE 1)
                 /\ cond_not_empty_' = cond_not_empty_
          ELSE IF ret'.op = "ReadAll" /\ ret'.status = "OK"
            THEN /\ cond_not_full_' = {}
                 /\ cond_not_empty_' = cond_not_empty_
          ELSE IF ret'.op = "Close" /\ ret'.status = "true"
            THEN cond_not_full_' = {} /\ cond_not_empty_' = {}
          ELSE UNCHANGED conds
    ]_vars

\* Two readers were waiting; a write has woken one of them and the other
\* one is still waiting.
C22_Witness ==
  /\ ret.op \in {"Write", "TryWrite"} /\ ret.status = "OK"
  /\ \E t, u \in Threads :
       /\ pc[t] = "woken" /\ op[t] = "Read" /\ ~expired[t]
       /\ pc[u] = "wait" /\ op[u] = "Read" /\ u \in cond_not_empty_

\* C24: a method called through a reader or a writer is a step of the
\* method of the channel and nothing else: it has the channel's result and
\* effect and changes no handle and no share; all handles work on the one
\* queue and the one closed flag, so what the readers hand out is what the
\* writers wrote, in order, and IsClosed() returns closed_ through every
\* handle.
C24_HandlesForward ==
  /\ [][\A t \in Threads :
          (pc[t] \in {"held", "reheld"} /\ pc'[t] # pc[t]) =>
            /\ UNCHANGED handles
            /\ Step(t)
            /\ ReturnsFrom(t, "IsClosed") =>
                 ret'.status = (IF closed_ THEN "true" ELSE "false")
       ]_vars
  /\ [](/\ Len(delivered) <= Len(written)
        /\ \A i \in 1..Len(delivered) : delivered[i] = written[i]
        /\ \A i \in 1..Len(queue_) : queue_[i] = written[Len(delivered) + i])

\* The creator has given its reference up; a value written through the
\* writer was read through the reader, and another one is in the queue.
C24_Witness ==
  /\ ~channel /\ readers = 1 /\ writers = 1
  /\ ret.op \in {"Read", "TryRead"} /\ ret.status = "OK"
  /\ ret.vals = <<written[1]>>
  /\ Len(queue_) = 1

\* C25: Create() is atomic with respect to Close(): it never returns a
\* handle for a channel that is closed at the moment Create() returns.
C25_CreateAtomic ==
  [][\A t \in Threads :
       (pc[t] \in {"create", "create_held", "create_open"} /\ pc'[t] = "idle"
          /\ ret'.status = "handle") => ~closed_'
    ]_vars

Errors == {"ERR_CANCELLED", "ERR_NO_RESOURCE", "ERR_ENTRY_NOT_FOUND", "ERR_INTERNAL"}

\* C26: a method that returns an error leaves the queue, the closed flag
\* and the waiters as they were when it took the mutex and hands no value
\* out; the queue and the closed flag change only in a successful Write or
\* TryWrite (one value more at the tail), a successful Read or TryRead (the
\* front item less), a ReadAll on the open channel (the queue emptied) and
\* the Close() that makes the transition (closed_ set, the queue kept).
C26_ErrorFrame ==
  [][/\ \A t \in Threads : (Returns(t) /\ ret'.status \in Errors) =>
          /\ UNCHANGED <<queue_, closed_, max_depth_, conds, written, delivered>>
          /\ ret'.vals = <<>>
     /\ (queue_' # queue_ \/ closed_' # closed_) =>
          \E t \in Threads :
            /\ Returns(t)
            /\ \/ /\ ret'.op \in {"Write", "TryWrite"} /\ ret'.status = "OK"
                  /\ Len(queue_') = Len(queue_) + 1
                  /\ SubSeq(queue_', 1, Len(queue_)) = queue_
                  /\ closed_' = closed_
               \/ /\ ret'.op \in {"Read", "TryRead"} /\ ret'.status = "OK"
                  /\ queue_' = Tail(queue_)
                  /\ closed_' = closed_
               \/ /\ ret'.op = "ReadAll" /\ ret'.status = "OK"
                  /\ ~closed_ /\ queue_' = <<>>
                  /\ closed_' = closed_
               \/ /\ ret'.op = "Close" /\ ret'.status = "true"
                  /\ ~closed_ /\ closed_'
                  /\ queue_' = queue_
    ]_vars

\* The queue of capacity 1 holds the one value written, and a Write was
\* refused for lack of room after its wait.
C26_Witness ==
  /\ ~closed_
  /\ max_depth_ = 1 /\ Len(queue_) = 1 /\ queue_ = written
  /\ ret.op = "Write" /\ ret.status = "ERR_NO_RESOURCE"

\* C28: the values accepted by the successful writes are exactly the values
\* handed out followed by the values in the queue, so as many were written
\* as were handed out or are queued, and each value handed out or queued was
\* written by a successful Write or TryWrite; open or closed.
C28_Conservation ==
  /\ Len(written) = Len(delivered) + Len(queue_)
  /\ \A i \in 1..Len(delivered) : \E j \in 1..Len(written) : delivered[i] = written[j]
  /\ \A i \in 1..Len(queue_) : \E j \in 1..Len(written) : queue_[i] = written[j]
  /\ \A j \in 1..Len(written) :
       \/ \E i \in 1..Len(delivered) : delivered[i] = written[j]
       \/ \E i \in 1..Len(queue_) : queue_[i] = written[j]

\* Three values were written; on the closed channel one was handed out and
\* two are in the queue.
C28_Witness ==
  /\ closed_
  /\ Len(written) = 3 /\ Len(delivered) = 1 /\ Len(queue_) = 2

\* The readers that a wake-up has reached and that have yet to look at the
\* queue.
WokenReaders == {t \in Threads : pc[t] \in {"woken", "reheld"} /\ op[t] = "Read"}

\* C27: a reader that comes out of its wait and finds the channel open and
\* the queue not empty takes the front item and returns; while readers wait
\* on the open channel, as many wake-ups are under way as there are items
\* in the queue; and under fair scheduling the channel does not stay open
\* with an item in the queue while a thread stays blocked in Read.
C27_ReaderNotStranded ==
  /\ [][\A t \in InRead :
          /\ pc[t] \in {"wait", "woken"} => pc'[t] \in {"wait", "woken", "reheld"}
          /\ (pc[t] = "reheld" /\ pc'[t] # "reheld" /\ ~closed_ /\ Len(queue_) > 0) =>
               /\ pc'[t] = "idle" /\ ret'.op = "Read" /\ ret'.status = "OK"
               /\ ret'.vals = <<Head(queue_)>>
       ]_vars
  /\ []((~closed_ /\ cond_not_empty_ # {}) =>
          Cardinality(WokenReaders) >= Len(queue_))
  /\ (InRead # {} /\ ~closed_ /\ Len(queue_) > 0)
       ~> (InRead = {} \/ closed_ \/ Len(queue_) = 0)

\* Two readers were waiting with the unbounded timeout; a write has woken
\* one of them, which holds the mutex again and finds the item, and the
\* other one is still waiting.
C27_Witness ==
  /\ ~closed_ /\ Len(queue_) = 1
  /\ \E t, u \in Threads :
       /\ pc[t] = "reheld" /\ op[t] = "Read" /\ timeout[t] = InfiniteDuration
       /\ pc[u] = "wait" /\ op[u] = "Read" /\ timeout[u] = InfiniteDuration

Min(a, b) == IF a <= b THEN a ELSE b

\* Of the writers a ReadAll woke, as many as there is room for have
\* returned from Write(), their values are the queue, and the others are
\* still in Write().
DrainDone ==
  /\ drain # {}
  /\ ~closed_
  /\ Cardinality({t \in drain : pc[t] = "idle"}) = Min(Cardinality(drain), max_depth_)
  /\ Len(queue_) = Min(Cardinality(drain), max_depth_)
  /\ \A t \in drain : pc[t] # "idle" =>
       pc[t] \in {"wait", "woken", "reheld"} /\ op[t] = "Write"

\* C23: a ReadAll on the open channel empties the queue and wakes every
\* thread waiting in Write; the queue never grows beyond the capacity k;
\* of m writers blocked with the unbounded timeout when the ReadAll emptied
\* the queue, each one that takes the mutex again enqueues and returns
\* success when there is room and waits again when the queue is full; with
\* no further reads and no Close(), under fair scheduling min(m, k) of them
\* have in the end returned with their values in the queue, the others keep
\* waiting, and that is how it stays.
C23_ReadAllWakesAll ==
  /\ [][\A t \in Threads : (ReturnsFrom(t, "ReadAll") /\ ret'.status = "OK") =>
          /\ queue_' = <<>>
          /\ cond_not_full_' = {}
          /\ \A u \in cond_not_full_ : pc'[u] = "woken"
       ]_vars
  /\ [](Len(queue_) <= max_depth_)
  /\ [][\A t \in drain : (pc[t] = "reheld" /\ pc'[t] # "reheld") =>
          IF Len(queue_) < max_depth_
            THEN /\ pc'[t] = "idle"
                 /\ ret'.op = "Write" /\ ret'.status = "OK"
                 /\ queue_' = Append(queue_, val[t])
            ELSE pc'[t] = "wait" /\ queue_' = queue_
       ]_vars
  /\ [][DrainDone => DrainDone']_vars
  /\ (drain # {}) ~> DrainDone

\* Capacity 1: of the two writers the ReadAll woke, one has written its
\* value and the other one waits again.
C23_Witness ==
  /\ max_depth_ = 1
  /\ Cardinality(drain) = 2
  /\ DrainDone
  /\ \E t \in drain : pc[t] = "wait"

\* C29: at most one GbPhal object exists, and it is the one singleton_
\* points to; Initialize fails exactly when the object is not initialized
\* and the interface passed is null, and leaves the stored interface alone
\* when the object is initialized; after a failed Initialize CreateSingleton
\* deletes the object, clears singleton_ and returns null; in every other
\* case it returns singleton_, which stays in place.
C29_CreateSingleton ==
  /\ [](Cardinality(instances) <= 1)
  /\ [](instances = IF singleton_ = nullptr THEN {} ELSE {singleton_})
  /\ [][\A t \in 1..PhalThreads :
          (gb_pc[t] = "created" /\ gb_pc'[t] = "initialized") =>
            /\ status'[t] \in {"OK", "ERR_INTERNAL"}
            /\ status'[t] # "OK" <=>
                 (~initialized_[singleton_] /\ gb_interface[t] = nullptr)
            /\ initialized_[singleton_] =>
                 gb_interface_'[singleton_] = gb_interface_[singleton_]
            /\ status'[t] = "OK" =>
                 /\ initialized_'[singleton_]
                 /\ gb_interface_'[singleton_] # nullptr
       ]_vars
  /\ [][\A t \in 1..PhalThreads :
          (gb_pc[t] = "initialized" /\ gb_pc'[t] = "idle") =>
            /\ gb_ret'.op = "CreateSingleton"
            /\ IF status[t] # "OK"
                 THEN /\ gb_ret'.value = nullptr
                      /\ singleton_' = nullptr
                      /\ instances' = {}
                 ELSE /\ gb_ret'.value = singleton_
                      /\ gb_ret'.value # nullptr
                      /\ singleton_' = singleton_
                      /\ instances' = {singleton_}
       ]_vars

\* A CreateSingleton(nullptr) has returned null after deleting the object,
\* which an earlier call had returned and which was shut down since.
C29_Witness ==
  /\ gb_ret = [op |-> "CreateSingleton", value |-> nullptr]
  /\ singleton_ = nullptr
  /\ instances = {}
  /\ received # {}

\* C30: no step deletes an object whose pointer a caller has received.
C30_ReturnedStaysAlive ==
  [][\A a \in returned : a \in instances']_vars

====
